---- MODULE Spec2Model ----
(***************************************************************************)
(* Fractal pattern generator and phase-shift watermark codec of            *)
(* artisans-proof (scripts/fractal_encoding, scripts/identity).            *)
(*                                                                         *)
(* Numbers.  The program computes in IEEE doubles; the model computes the  *)
(* same expressions exactly, on values for which the double computation is *)
(* exact as well:                                                          *)
(*   - a strength or a threshold is a pair <<num, den>> (num/den, den > 0);*)
(*   - a pattern value v of the generator stands for v / PatUnit;          *)
(*   - audio samples are small integers (multiples of 3, so that the mean  *)
(*     of a 3-sample chunk is an integer);                                 *)
(*   - a correlation is the triple of integer moments it is computed from. *)
(* Python's str hash is keyed by a per-process secret and NumPy's          *)
(* generator is the Mersenne Twister; both are modelled by small mixing    *)
(* functions with the same interface (key and string in, integer out;      *)
(* integer seed in, stream of draws out).                                  *)
(***************************************************************************)
EXTENDS Integers, Sequences, FiniteSets, TLC

VARIABLES
    hashsecret,   \* per process: the key of Python's str hash (PYTHONHASHSEED)
    np_global,    \* per process: draws consumed from NumPy's module-level generator
    gen_prev,     \* the generate call before the last one
    gen_last,     \* the last generate call: its arguments and its outcome
    enc,          \* the last encode call: its arguments and its outcome
    ver,          \* the last verify call on enc: its arguments and its verdicts
    par,          \* chunk index -> encoded chunk, for the chunks workers have done
    loop,         \* a generate call in progress: its while loop, pass by pass
    multi         \* the last encode_multi_track call: its arguments and its outcome

vars == <<hashsecret, np_global, gen_prev, gen_last, enc, ver, par, loop, multi>>

(***************************************************************************)
(* Bounds of the model.                                                    *)
(***************************************************************************)
MaxLen == 7           \* longest pattern asked of generate in SpecGen
MaxGlobalDraws == 1   \* draws a process takes from the module-level generator
MaxAudio == 3         \* longest audio buffer
MaxChunk == 2         \* largest chunk size (the kernel below is exact up to 3)
MaxPat == 2           \* longest caller-supplied pattern

Procs == {"run1", "run2"}
Secrets == {0, 1}
\* A seed string is the sequence of its characters; 0..15 are the hex digits
\* '0'..'f', 16 is a letter that is no hex digit.
Seeds == {<<1, 10>>, <<16>>}
NoCall == [kind |-> "none"]
NoChunks == [k \in {} |-> <<>>]
NoLoop == [pc |-> "idle"]
MaxParAudio == 4      \* longest buffer encoded chunk by chunk by workers

(***************************************************************************)
(* Arithmetic helpers.                                                     *)
(***************************************************************************)
Abs(x) == IF x < 0 THEN -x ELSE x

\* int(a / b) for b > 0: Python's int() truncates toward zero.
TruncDiv(a, b) == IF a >= 0 THEN a \div b ELSE -((-a) \div b)

RECURSIVE SumSeq(_)
SumSeq(s) == IF s = <<>> THEN 0 ELSE Head(s) + SumSeq(Tail(s))

\* s[lo:hi] of Python, 0-based, hi exclusive, clipped to the sequence.
Slice(s, lo, hi) ==
    LET h == IF hi > Len(s) THEN Len(s) ELSE hi
    IN  IF lo >= h THEN <<>> ELSE SubSeq(s, lo + 1, h)

\* a/b > c/d for a, c >= 0 and b, d > 0, by continued fractions (no products,
\* so no overflow).
RECURSIVE FracGT(_, _, _, _)
FracGT(a, b, c, d) ==
    LET qa == a \div b
        qc == c \div d
        ra == a % b
        rc == c % d
    IN  IF qa # qc THEN qa > qc
        ELSE IF ra = 0 THEN FALSE
        ELSE IF rc = 0 THEN TRUE
        ELSE FracGT(d, rc, b, ra)

(***************************************************************************)
(* Seed derivation and the random generator.                               *)
(***************************************************************************)
HashSpace == 2^20
SeedSpace == 2^16     \* stands for 2**32 of the source (TLC integers are 32-bit)
PatUnit == 2^10       \* pattern value 1.0

\* hash(seed) of a str: a keyed hash of the characters; the key is drawn when
\* the process starts.
RECURSIVE PyHashFrom(_, _)
PyHashFrom(h, s) ==
    IF s = <<>> THEN h
    ELSE PyHashFrom((h * 31 + Head(s) + 7) % HashSpace, Tail(s))

PyHash(secret, seed) ==
    IF seed = <<>> THEN 0 ELSE PyHashFrom((secret * 7919 + 104729) % HashSpace, seed)

\* int(s, 16): the value of a hex string, "ValueError" for any other string.
RECURSIVE HexValue(_, _)
HexValue(acc, s) ==
    IF s = <<>> THEN acc
    ELSE IF Head(s) > 15 THEN -1
    ELSE HexValue(acc * 16 + Head(s), Tail(s))

int16(s) == IF s = <<>> THEN -1 ELSE HexValue(0, s)

\* np.random.RandomState(n): the generator state after seeding with n.
RandomState(n) == n % SeedSpace

\* One step of the generator.
rng_next(state) == (state * 25173 + 13849) % SeedSpace

\* random_sample() of the state reached: a fraction r/16 in [0, 1).
rng_sample(state) == state \div (SeedSpace \div 16)

\* rng.uniform(low, high) = low + (high - low) * random_sample(), on the
\* state already advanced.
uniform(state, low, high) == low + ((high - low) * rng_sample(state)) \div 16

RECURSIVE rng_skip(_, _)
rng_skip(state, k) == IF k = 0 THEN state ELSE rng_skip(rng_next(state), k - 1)

(***************************************************************************)
(* Fractal pattern generator (midpoint displacement).                      *)
(***************************************************************************)
\* rng = np.random.RandomState(n): a generator of its own, seeded by n alone;
\* the module-level generator (global_draws of it consumed) is not read.
seeded_rng_shared(n, global_draws) == rng_skip(RandomState(0), global_draws)
seeded_rng(n, global_draws) == RandomState(n)

\* for i in range(i, length, step * 2): one pass of the refinement, on
\* st = [pattern, rng, assigned, placeholder_reads]; pattern is 1-based here,
\* 0-based in the source. assigned is the set of (0-based) elements written so
\* far; placeholder_reads collects <<i, j>> whenever element i is computed
\* from a neighbour j that still holds the 0 of np.zeros.
RECURSIVE refine_pass_accumulating(_, _, _, _, _)
refine_pass_accumulating(st, i, step, scale, length) ==
    IF i >= length THEN st
    ELSE IF i + step < length
    THEN LET r == rng_next(st.rng)
             avg == (st.pattern[i - step + 1] + st.pattern[i + step + 1]) \div 2
             v == st.pattern[i + 1] + avg + uniform(r, -scale, scale)
             written == [pattern |-> [st.pattern EXCEPT ![i + 1] = v],
                         rng |-> r,
                         assigned |-> st.assigned \cup {i},
                         placeholder_reads |->
                             st.placeholder_reads \cup
                             {<<i, j>> : j \in {i - step, i + step} \ st.assigned}]
         IN  IF written.rng = r
             THEN refine_pass_accumulating(written, i + step * 2, step, scale, length)
             ELSE written
    ELSE refine_pass_accumulating(st, i + step * 2, step, scale, length)
RECURSIVE refine_pass(_, _, _, _, _)
refine_pass(st, i, step, scale, length) ==
    IF i >= length THEN st
    ELSE IF i + step < length
    THEN LET r == rng_next(st.rng)
             avg == (st.pattern[i - step + 1] + st.pattern[i + step + 1]) \div 2
             v == avg + uniform(r, -scale, scale)
             written == [pattern |-> [st.pattern EXCEPT ![i + 1] = v],
                         rng |-> r,
                         assigned |-> st.assigned \cup {i},
                         placeholder_reads |->
                             st.placeholder_reads \cup
                             {<<i, j>> : j \in {i - step, i + step} \ st.assigned}]
         IN  IF written.rng = r
             THEN refine_pass(written, i + step * 2, step, scale, length)
             ELSE written
    ELSE refine_pass(st, i + step * 2, step, scale, length)

\* while step > 0: ...; step //= 2; scale *= 0.5
RECURSIVE refine_constant_scale(_, _, _, _)
refine_constant_scale(st, step, scale, length) ==
    IF step > 0
    THEN refine_constant_scale(refine_pass(st, step, step, scale, length),
                               step \div 2, scale, length)
    ELSE st
RECURSIVE refine(_, _, _, _)
refine(st, step, scale, length) ==
    IF step > 0
    THEN refine(refine_pass(st, step, step, scale, length), step \div 2, scale \div 2, length)
    ELSE st

\* step //= 2
next_step_decrement(step) == step - 1
next_step(step) == step \div 2

\* The body shared by both generators, from the seeded generator rng0 on:
\* np.zeros(length) fails for a negative length, pattern[0] = ... for length 0.
GenFailure(error) ==
    [outcome |-> error, pattern |-> <<>>, assigned |-> {}, placeholder_reads |-> {}]

midpoint_displacement(rng0, length) ==
    IF length < 0 THEN GenFailure("ValueError")
    ELSE IF length = 0 THEN GenFailure("IndexError")
    ELSE LET r == rng_next(rng0)
             zeros == [k \in 1..length |-> 0]
             first == [zeros EXCEPT ![1] = uniform(r, -PatUnit, PatUnit)]
             done == refine([pattern |-> first, rng |-> r, assigned |-> {0},
                             placeholder_reads |-> {}],
                            length \div 2, PatUnit, length)
         IN  [outcome |-> "ok", pattern |-> done.pattern, assigned |-> done.assigned,
              placeholder_reads |-> done.placeholder_reads]

\* MultiTrackOrchestrator.generate_fractal_pattern (and its copies in the test
\* scripts): the generator seed is hash(seed) % 2**32.
generate_fractal_pattern(secret, global_draws, seed, length) ==
    midpoint_displacement(seeded_rng(PyHash(secret, seed) % SeedSpace, global_draws), length)

\* SovereignIdentityEngine.generate_audio_fractal_pattern: the generator seed
\* is int(fractal_seed[:8], 16) % 2**32.
generate_audio_fractal_pattern(global_draws, fractal_seed, length) ==
    LET n == int16(Slice(fractal_seed, 0, 8))
    IN  IF n < 0 THEN GenFailure("ValueError")
        ELSE midpoint_displacement(seeded_rng(n % SeedSpace, global_draws), length)

Lengths == -1..MaxLen

GenRecord(p, component, seed, length, res) ==
    [kind |-> "generate", proc |-> p, component |-> component, seed |-> seed,
     length |-> length, outcome |-> res.outcome, pattern |-> res.pattern,
     assigned |-> res.assigned, placeholder_reads |-> res.placeholder_reads]

\* A run is followed over two generate calls, made by the same process or by
\* two processes.
\* A script draws from NumPy's module-level generator (np.random.normal).
UseGlobalRandom(p) ==
    /\ np_global[p] < MaxGlobalDraws
    /\ np_global' = [np_global EXCEPT ![p] = @ + 1]
    /\ UNCHANGED <<loop, multi, par, hashsecret, gen_prev, gen_last, enc, ver>>

GenerateOrchestrator(p, seed, length) ==
    /\ gen_prev = NoCall
    /\ gen_prev' = gen_last
    /\ gen_last' = GenRecord(p, "orchestrator", seed, length,
                             generate_fractal_pattern(hashsecret[p], np_global[p], seed, length))
    /\ UNCHANGED <<loop, multi, par, hashsecret, np_global, enc, ver>>

GenerateSovereign(p, seed, length) ==
    /\ gen_prev = NoCall
    /\ gen_prev' = gen_last
    /\ gen_last' = GenRecord(p, "sovereign", seed, length,
                             generate_audio_fractal_pattern(np_global[p], seed, length))
    /\ UNCHANGED <<loop, multi, par, hashsecret, np_global, enc, ver>>

\* Every process (run of the interpreter) draws its hash key when it starts.
InitGen ==
    /\ hashsecret \in [Procs -> Secrets]
    /\ np_global = [p \in Procs |-> 0]
    /\ gen_prev = NoCall
    /\ gen_last = NoCall
    /\ enc = NoCall
    /\ ver = NoCall
    /\ par = NoChunks
    /\ loop = NoLoop
    /\ multi = NoCall

NextGen ==
    \/ \E p \in Procs : UseGlobalRandom(p)
    \/ /\ gen_prev = NoCall
       /\ \E p \in Procs, seed \in Seeds, length \in Lengths :
              GenerateOrchestrator(p, seed, length)
    \/ /\ gen_prev = NoCall
       /\ \E p \in Procs, seed \in Seeds, length \in Lengths :
              GenerateSovereign(p, seed, length)

SpecGen == InitGen /\ [][NextGen]_vars

(***************************************************************************)
(* The generator's while loop, one pass at a time.                         *)
(***************************************************************************)
\* Generator seeds a call may have derived.
RngSeeds == {RandomState(n * 4099) : n \in 0..15}

\* pattern = np.zeros(length); pattern[0] = rng.uniform(-1, 1);
\* step = length // 2; scale = 1.0 -- for a length the two statements accept.
LoopStart(rng0, length) ==
    /\ loop = NoLoop
    /\ length >= 1
    /\ loop' = [pc |-> "while", rng0 |-> rng0, length |-> length,
                step |-> length \div 2, scale |-> PatUnit, passes |-> 0,
                st |-> [pattern |-> [k \in 1..length |->
                                        IF k = 1
                                        THEN uniform(rng_next(rng0), -PatUnit, PatUnit)
                                        ELSE 0],
                        rng |-> rng_next(rng0),
                        assigned |-> {0},
                        placeholder_reads |-> {}]]
    /\ UNCHANGED <<hashsecret, np_global, gen_prev, gen_last, enc, ver, par, multi>>

\* One iteration of while step > 0: the for loop, then step //= 2 and
\* scale *= 0.5.
LoopPass ==
    /\ loop.pc = "while"
    /\ loop.step > 0
    /\ loop' = [loop EXCEPT !.st = refine_pass(loop.st, loop.step, loop.step,
                                               loop.scale, loop.length),
                            !.step = next_step(loop.step),
                            !.scale = loop.scale \div 2,
                            !.passes = loop.passes + 1]
    /\ UNCHANGED <<hashsecret, np_global, gen_prev, gen_last, enc, ver, par, multi>>

\* The test step > 0 fails: return pattern.
LoopExit ==
    /\ loop.pc = "while"
    /\ loop.step <= 0
    /\ loop' = [loop EXCEPT !.pc = "done"]
    /\ UNCHANGED <<hashsecret, np_global, gen_prev, gen_last, enc, ver, par, multi>>

NextLoop ==
    \/ /\ loop = NoLoop
       /\ \E rng0 \in RngSeeds, length \in 1..MaxLen : LoopStart(rng0, length)
    \/ LoopPass
    \/ LoopExit

\* The interpreter keeps running the call: a pass or the exit that can be
\* taken is taken.
SpecLoop == InitGen /\ [][NextLoop]_vars /\ WF_vars(LoopPass) /\ WF_vars(LoopExit)
(***************************************************************************)
(* Phase-shift watermark codec.                                            *)
(***************************************************************************)
sample_rate == 44100
default_strength == <<1, 100>>      \* 0.01 ms
default_threshold == <<99, 100>>    \* 0.99
pattern_length == 100               \* generate_fractal_pattern(seed, 100)

\* max_shift_samples = int((strength_ms / 1000) * sample_rate)
max_shift_samples_at_least_one(strength_ms) ==
    LET m == TruncDiv(strength_ms[1] * sample_rate, strength_ms[2] * 1000)
    IN  IF m = 0 THEN 1 ELSE m
max_shift_samples_in_seconds(strength_ms) ==
    TruncDiv(strength_ms[1] * sample_rate, strength_ms[2])
max_shift_samples_floor(strength_ms) ==
    (strength_ms[1] * sample_rate) \div (strength_ms[2] * 1000)
max_shift_samples(strength_ms) ==
    TruncDiv(strength_ms[1] * sample_rate, strength_ms[2] * 1000)

\* np.max(np.abs(fractal_pattern)) of a non-empty pattern.
MaxAbs(pattern) ==
    LET mags == {Abs(pattern[k]) : k \in DOMAIN pattern}
    IN  CHOOSE m \in mags : \A v \in mags : v <= m

\* shift_samples = int(fractal_norm[pattern_idx] * max_shift_samples), where
\* fractal_norm = fractal_pattern / np.max(np.abs(fractal_pattern)) and the
\* maximum is not 0; pattern_idx is 0-based.
shift_samples_rounding_away(fractal_pattern, pattern_idx, max_shift) ==
    LET product == fractal_pattern[pattern_idx + 1] * max_shift
        t == TruncDiv(product, MaxAbs(fractal_pattern))
    IN  IF t * MaxAbs(fractal_pattern) = product THEN t
        ELSE IF product > 0 THEN t + 1 ELSE t - 1
shift_samples(fractal_pattern, pattern_idx, max_shift) ==
    TruncDiv(fractal_pattern[pattern_idx + 1] * max_shift, MaxAbs(fractal_pattern))

\* Three times the weight of input sample m in output sample n of
\*   real(ifft(abs(F) * exp(1j * (angle(F) + linspace(0, s*2*pi/N, N))))).
\* Bin k is rotated by k * s * 2*pi / (N * (N - 1)), so output n is the
\* chunk's trigonometric interpolant at n + s / (N - 1):
\*   y[n] = sum_m x[m] * D(n - m + s/(N-1)),  D(u) = (1/N) sum_k cos(2*pi*k*u/N).
\* D is 1 at multiples of N and 0 at the other integers; for N = 3 it is 1/3
\* at every half-integer. (For N = 1 linspace yields the single angle 0.)
PhaseKernel3(N, n, m, s) ==
    IF N = 1 THEN 3
    ELSE IF N = 2 THEN (IF (n - m + s) % 2 = 0 THEN 3 ELSE 0)
    ELSE IF s % 2 = 0 THEN (IF (n - m + s \div 2) % 3 = 0 THEN 3 ELSE 0)
    ELSE 1

RECURSIVE PhaseSum(_, _, _, _)
PhaseSum(chunk, n, m, s) ==
    IF m > Len(chunk) THEN 0
    ELSE chunk[m] * PhaseKernel3(Len(chunk), n, m, s) + PhaseSum(chunk, n, m + 1, s)

\* PhaseShiftEncoder.apply_phase_shift
apply_phase_shift_dropping(chunk, shift) == Slice(chunk, Abs(shift), Len(chunk))
apply_phase_shift(chunk, shift) ==
    IF shift = 0 THEN chunk
    ELSE [n \in 1..Len(chunk) |-> PhaseSum(chunk, n, 1, shift) \div 3]

\* The loop body: a chunk of full size is shifted by its pattern element, a
\* shorter (trailing) one is kept as it is.
encode_chunk_padding(chunk, chunk_size, fractal_pattern, pattern_idx, max_shift) ==
    IF Len(chunk) = chunk_size
    THEN apply_phase_shift(chunk, shift_samples(fractal_pattern, pattern_idx, max_shift))
    ELSE chunk \o [k \in 1..(chunk_size - Len(chunk)) |-> 0]
encode_chunk(chunk, chunk_size, fractal_pattern, pattern_idx, max_shift) ==
    IF Len(chunk) = chunk_size
    THEN apply_phase_shift(chunk, shift_samples(fractal_pattern, pattern_idx, max_shift))
    ELSE chunk

\* A call that raised: no buffer, no chunk shifted.
EncodeFailure(error) == [outcome |-> error, encoded |-> <<>>, shifts |-> <<>>]

\* for i in range(i, len(audio_data), chunk_size): ... encoded_audio.extend(chunk)
\* for chunk_size > 0. Nothing is carried from one iteration to the next but
\* the list of samples. shifts lists the shift_samples of the full chunks in
\* the order the loop computed them. With an all-zero pattern fractal_norm is all NaN and
\* int() of the first full chunk's NaN product raises ValueError.
RECURSIVE encode_loop_carrying(_, _, _, _, _)
encode_loop_carrying(audio_data, fractal_pattern, max_shift, chunk_size, i) ==
    IF i >= Len(audio_data) THEN [outcome |-> "ok", encoded |-> <<>>, shifts |-> <<>>]
    ELSE LET chunk == Slice(audio_data, i, i + chunk_size)
         IN  IF Len(chunk) = chunk_size /\ MaxAbs(fractal_pattern) = 0
             THEN EncodeFailure("ValueError")
             ELSE LET carried == SumSeq([j \in 1..(i \div chunk_size + 1) |->
                                           shift_samples(fractal_pattern,
                                                         (j - 1) % Len(fractal_pattern),
                                                         max_shift)])
                      piece == IF Len(chunk) = chunk_size
                               THEN apply_phase_shift(chunk, carried)
                               ELSE chunk
                      rest == encode_loop_carrying(audio_data, fractal_pattern, max_shift,
                                                   chunk_size, i + chunk_size)
                  IN  IF rest.outcome = "ok"
                      THEN [outcome |-> "ok", encoded |-> piece \o rest.encoded,
                            shifts |-> (IF Len(chunk) = chunk_size
                                        THEN <<carried>> ELSE <<>>) \o rest.shifts]
                      ELSE rest
RECURSIVE encode_loop_offset_index(_, _, _, _, _)
encode_loop_offset_index(audio_data, fractal_pattern, max_shift, chunk_size, i) ==
    IF i >= Len(audio_data) THEN [outcome |-> "ok", encoded |-> <<>>, shifts |-> <<>>]
    ELSE LET chunk == Slice(audio_data, i, i + chunk_size)
         IN  IF Len(chunk) = chunk_size /\ MaxAbs(fractal_pattern) = 0
             THEN EncodeFailure("ValueError")
             ELSE LET pattern_idx == i % Len(fractal_pattern)
                      piece == encode_chunk(chunk, chunk_size, fractal_pattern,
                                            pattern_idx, max_shift)
                      rest == encode_loop_offset_index(audio_data, fractal_pattern, max_shift,
                                                       chunk_size, i + chunk_size)
                  IN  IF rest.outcome = "ok"
                      THEN [outcome |-> "ok", encoded |-> piece \o rest.encoded,
                            shifts |-> (IF Len(chunk) = chunk_size
                                        THEN <<shift_samples(fractal_pattern, pattern_idx,
                                                             max_shift)>>
                                        ELSE <<>>) \o rest.shifts]
                      ELSE rest
RECURSIVE encode_loop(_, _, _, _, _)
encode_loop(audio_data, fractal_pattern, max_shift, chunk_size, i) ==
    IF i >= Len(audio_data) THEN [outcome |-> "ok", encoded |-> <<>>, shifts |-> <<>>]
    ELSE LET chunk == Slice(audio_data, i, i + chunk_size)
         IN  IF Len(chunk) = chunk_size /\ MaxAbs(fractal_pattern) = 0
             THEN EncodeFailure("ValueError")
             ELSE LET pattern_idx == (i \div chunk_size) % Len(fractal_pattern)
                      piece == encode_chunk(chunk, chunk_size, fractal_pattern,
                                            pattern_idx, max_shift)
                      rest == encode_loop(audio_data, fractal_pattern, max_shift,
                                          chunk_size, i + chunk_size)
                  IN  IF rest.outcome = "ok"
                      THEN [outcome |-> "ok", encoded |-> piece \o rest.encoded,
                            shifts |-> (IF Len(chunk) = chunk_size
                                        THEN <<shift_samples(fractal_pattern, pattern_idx,
                                                             max_shift)>>
                                        ELSE <<>>) \o rest.shifts]
                      ELSE rest

\* PhaseShiftEncoder.encode_audio, the chunk size a parameter as in
\* encode_phase_fractal: np.max of an empty pattern and range() with step 0
\* raise ValueError; a negative step makes the range empty.
encode_audio(audio_data, fractal_pattern, strength_ms, chunk_size) ==
    IF Len(fractal_pattern) = 0 \/ chunk_size = 0
    THEN EncodeFailure("ValueError")
    ELSE IF chunk_size < 0 THEN [outcome |-> "ok", encoded |-> <<>>, shifts |-> <<>>]
    ELSE encode_loop(audio_data, fractal_pattern, max_shift_samples(strength_ms),
                     chunk_size, 0)

\* np.corrcoef(x, y)[0, 1] of two buffers of one length, as the moments
\*   cov = n*sum(xy) - sum(x)sum(y), vx = n*sum(xx) - sum(x)^2, vy likewise:
\* the coefficient is cov / sqrt(vx * vy), and NaN when vx * vy = 0.
RECURSIVE Dot(_, _)
Dot(x, y) == IF x = <<>> THEN 0 ELSE Head(x) * Head(y) + Dot(Tail(x), Tail(y))

corrcoef(x, y) ==
    LET n == Len(x)
    IN  [cov |-> n * Dot(x, y) - SumSeq(x) * SumSeq(y),
         vx  |-> n * Dot(x, x) - SumSeq(x) * SumSeq(x),
         vy  |-> n * Dot(y, y) - SumSeq(y) * SumSeq(y)]

IsNaN(c) == c.vx * c.vy = 0

\* correlation > t for a threshold t = <<num, den>> >= 0; false for NaN.
CorrGT(c, t) ==
    /\ ~IsNaN(c)
    /\ c.cov > 0
    /\ FracGT(c.cov * c.cov, c.vx * c.vy, t[1] * t[1], t[2] * t[2])

\* correlation >= t, likewise.
CorrGE(c, t) ==
    /\ ~IsNaN(c)
    /\ \/ t[1] = 0 /\ c.cov >= 0
       \/ c.cov > 0 /\ ~FracGT(t[1] * t[1], t[2] * t[2], c.cov * c.cov, c.vx * c.vy)

\* audio_preserved = correlation > threshold
audio_preserved_or_equal(c, threshold) == CorrGE(c, threshold)
audio_preserved(c, threshold) == CorrGT(c, threshold)

\* PhaseShiftEncoder.detect_fractal_pattern
detect_fractal_pattern_nonsilent(audio_data) ==
    \E k \in DOMAIN audio_data : audio_data[k] # 0
detect_fractal_pattern(audio_data) == TRUE

\* 'meets_standards': audio_preserved and encoding_detected
meets_standards(preserved, detected) == preserved /\ detected

\* PhaseShiftEncoder.verify_encoding; np.corrcoef raises ValueError on buffers
\* of different lengths.
verify_encoding_truncating(original, encoded, threshold) ==
    LET n == IF Len(original) < Len(encoded) THEN Len(original) ELSE Len(encoded)
        correlation == corrcoef(Slice(original, 0, n), Slice(encoded, 0, n))
        preserved == audio_preserved(correlation, threshold)
    IN  [outcome |-> "ok",
         correlation |-> correlation,
         audio_preserved |-> preserved,
         encoding_detected |-> TRUE,
         meets_standards |-> preserved]
verify_encoding(original, encoded, threshold) ==
    IF Len(original) # Len(encoded)
    THEN [outcome |-> "ValueError"]
    ELSE LET correlation == corrcoef(original, encoded)
             preserved == audio_preserved(correlation, threshold)
             detected == detect_fractal_pattern(encoded)
         IN  [outcome |-> "ok",
              correlation |-> correlation,
              audio_preserved |-> preserved,
              encoding_detected |-> detected,
              meets_standards |-> meets_standards(preserved, detected)]

(***************************************************************************)
(* One run of the codec: an encode call, then a verify call on its result. *)
(***************************************************************************)
Samples == {-3, 0, 3}
PatVals == {-1, 0, 2}
Strengths == {<<0, 1>>, <<1, 1000>>, default_strength, <<3, 100>>, <<5, 100>>, <<7, 100>>}
Thresholds == {default_threshold, <<1, 1>>}
ChunkSizes == -1..MaxChunk
NoSeed == <<>>

SeqsUpTo(S, n) == UNION {[1..k -> S] : k \in 0..n}
Audios == SeqsUpTo(Samples, MaxAudio)
Patterns == SeqsUpTo(PatVals, MaxPat)

\* The caller's arrays after the call. fractal_norm = fractal_pattern / np.max(...)
\* binds the quotient, a new array, to a new name; the pattern is only read.
pattern_after_normalising_in_place(fractal_pattern) ==
    IF Len(fractal_pattern) = 0 \/ MaxAbs(fractal_pattern) = 0 THEN fractal_pattern
    ELSE [k \in DOMAIN fractal_pattern |->
              TruncDiv(fractal_pattern[k], MaxAbs(fractal_pattern))]
pattern_after_encode(fractal_pattern) == fractal_pattern

\* chunk = audio_data[i:i + chunk_size] is a view of the caller's buffer, but
\* nothing is stored through it: apply_phase_shift returns the view itself
\* (shift 0) or a new array, chunk is rebound to it, and extend copies the
\* samples into the list.
audio_after_encode(audio_data, encoded) == audio_data

\* np.corrcoef stacks its arguments into an array of its own.
buffer_after_verify(buffer) == buffer

\* audio_data, fractal_pattern: the arguments as passed; audio_after,
\* pattern_after: the same arrays when the call has returned or raised.
EncRecord(p, seed, audio_data, fractal_pattern, strength_ms, chunk_size, res) ==
    [kind |-> "encode", proc |-> p, seed |-> seed, audio_data |-> audio_data,
     fractal_pattern |-> fractal_pattern, strength_ms |-> strength_ms,
     chunk_size |-> chunk_size, outcome |-> res.outcome, encoded |-> res.encoded,
     shifts |-> res.shifts,
     audio_after |-> audio_after_encode(audio_data, res.encoded),
     pattern_after |-> pattern_after_encode(fractal_pattern)]

\* encode_audio on a caller's buffer and pattern.
EncodeAudio(audio_data, fractal_pattern, strength_ms, chunk_size) ==
    /\ enc = NoCall
    /\ ver = NoCall
    /\ enc' = EncRecord("caller", NoSeed, audio_data, fractal_pattern, strength_ms, chunk_size,
                        encode_audio(audio_data, fractal_pattern, strength_ms, chunk_size))
    /\ UNCHANGED <<loop, multi, par, hashsecret, np_global, gen_prev, gen_last, ver>>

\* The scripts' pipeline, run by process p: the pattern is generated from a
\* seed string, then the buffer is encoded with it.
EncodeFromSeed(p, seed, audio_data, strength_ms, chunk_size) ==
    /\ enc = NoCall
    /\ ver = NoCall
    /\ \E gen \in {generate_fractal_pattern(hashsecret[p], np_global[p], seed, pattern_length)} :
           enc' = EncRecord(p, seed, audio_data, gen.pattern, strength_ms, chunk_size,
                            encode_audio(audio_data, gen.pattern, strength_ms, chunk_size))
    /\ UNCHANGED <<loop, multi, par, hashsecret, np_global, gen_prev, gen_last, ver>>

VerRecord(threshold, assumed_seed, original, encoded) ==
    [kind |-> "verify", threshold |-> threshold, assumed_seed |-> assumed_seed,
     original |-> original, encoded |-> encoded,
     original_after |-> buffer_after_verify(original),
     encoded_after |-> buffer_after_verify(encoded),
     result |-> verify_encoding(original, encoded, threshold)]

\* verify_encoding(original, encoded, threshold) on the encode call's buffers;
\* assumed_seed is the seed the caller believes the buffer was encoded with
\* (verify_encoding has no parameter for it).
Verify(threshold, assumed_seed) ==
    /\ enc # NoCall
    /\ enc.outcome = "ok"
    /\ ver = NoCall
    /\ assumed_seed \in (IF enc.seed = NoSeed THEN {NoSeed} ELSE Seeds)
    /\ ver' = VerRecord(threshold, assumed_seed, enc.audio_data, enc.encoded)
    /\ UNCHANGED <<loop, multi, par, hashsecret, np_global, gen_prev, gen_last, enc>>

\* verify_encoding on two buffers the caller holds (a stored original and a
\* file read back), whatever their lengths.
VerifyBuffers(original, encoded, threshold) ==
    /\ enc = NoCall
    /\ ver = NoCall
    /\ ver' = VerRecord(threshold, NoSeed, original, encoded)
    /\ UNCHANGED <<loop, multi, par, hashsecret, np_global, gen_prev, gen_last, enc>>

\* Two runs of the interpreter that drew different hash keys.
Init ==
    /\ hashsecret = [p \in Procs |-> IF p = "run1" THEN 0 ELSE 1]
    /\ np_global = [p \in Procs |-> 0]
    /\ gen_prev = NoCall
    /\ gen_last = NoCall
    /\ enc = NoCall
    /\ ver = NoCall
    /\ par = NoChunks
    /\ loop = NoLoop
    /\ multi = NoCall

Next ==
    \/ /\ enc = NoCall
       /\ ver = NoCall
       /\ \E a \in Audios, pat \in Patterns, s \in Strengths, c \in ChunkSizes :
              EncodeAudio(a, pat, s, c)
    \/ /\ enc = NoCall
       /\ ver = NoCall
       /\ \E original \in Audios, encoded \in Audios, t \in Thresholds :
              VerifyBuffers(original, encoded, t)
    \/ /\ enc = NoCall
       /\ ver = NoCall
       /\ \E p \in Procs, seed \in Seeds, a \in Audios, s \in Strengths, c \in ChunkSizes :
              EncodeFromSeed(p, seed, a, s, c)
    \/ /\ enc # NoCall
       /\ ver = NoCall
       /\ \E t \in Thresholds, seed \in Seeds \cup {NoSeed} : Verify(t, seed)

Spec == Init /\ [][Next]_vars

(***************************************************************************)
(* The loop of encode_audio run by workers, one chunk each, in any order:  *)
(* after an encode call (the sequential loop) every full chunk of the same *)
(* buffer is encoded again on its own.                                     *)
(***************************************************************************)
ParSamples == {0, 3}
ParAudios == SeqsUpTo(ParSamples, MaxParAudio)
\* 0.01, 0.015 and 0.02 ms are the default strengths of encode_multi_track.
ParStrengths == {<<-1, 100>>, <<1, 100>>, <<15, 1000>>, <<2, 100>>, <<5, 100>>, <<7, 100>>}

\* The loop body for chunk k (0-based) alone: the slice, its pattern element,
\* the shift.
EncodeChunkWorker(k) ==
    /\ enc # NoCall
    /\ enc.outcome = "ok"
    /\ enc.chunk_size > 0
    /\ k < Len(enc.audio_data) \div enc.chunk_size
    /\ k \notin DOMAIN par
    /\ par' = [j \in DOMAIN par \cup {k} |->
                  IF j = k
                  THEN encode_chunk(Slice(enc.audio_data, k * enc.chunk_size,
                                          (k + 1) * enc.chunk_size),
                                    enc.chunk_size, enc.fractal_pattern,
                                    k % Len(enc.fractal_pattern),
                                    max_shift_samples(enc.strength_ms))
                  ELSE par[j]]
    /\ UNCHANGED <<loop, multi, hashsecret, np_global, gen_prev, gen_last, enc, ver>>

NextPar ==
    \/ /\ enc = NoCall
       /\ \E a \in ParAudios, pat \in Patterns, s \in ParStrengths, c \in 1..MaxChunk :
              EncodeAudio(a, pat, s, c)
    \/ /\ enc # NoCall
       /\ \E k \in 0..(MaxParAudio - 1) : EncodeChunkWorker(k)

SpecPar == Init /\ [][NextPar]_vars

(***************************************************************************)
(* MultiTrackOrchestrator.encode_multi_track.                              *)
(***************************************************************************)
frequency_bands == <<"low", "mid", "high">>
default_strengths == <<default_strength, <<15, 1000>>, <<2, 100>>>>

\* chunk_size of encode_single_track (2048 in the source, a chunk of the
\* model's largest size here).
track_chunk_size == MaxChunk

\* f"{master_seed}_track_{i}": the master seed, the infix "_track_" (one
\* character that is no hex digit here) and the digit i.
TrackSeed(master_seed, i) == master_seed \o <<16, i>>

\* generate_fractal_family: pattern i (0-based in the source) is generated
\* from the seed of track i, with length 100.
generate_fractal_family(secret, global_draws, master_seed, count) ==
    [k \in 1..count |->
        generate_fractal_pattern(secret, global_draws, TrackSeed(master_seed, k - 1),
                                 pattern_length).pattern]

\* encode_single_track: the loop of encode_audio with its own chunk size;
\* frequency_band is not read.
encode_single_track_banded(audio, fractal_pattern, strength_ms, frequency_band) ==
    encode_audio(audio, fractal_pattern,
                 IF frequency_band = "low" THEN strength_ms ELSE <<0, 1>>,
                 track_chunk_size)
encode_single_track(audio, fractal_pattern, strength_ms, frequency_band) ==
    encode_audio(audio, fractal_pattern, strength_ms, track_chunk_size)

\* for i, (track_name, audio) in enumerate(audio_tracks.items()): ..., from
\* position i (1-based here) on; audio_tracks is the dict's items in
\* insertion order. strengths[i] and frequency_bands[i] raise IndexError
\* past their ends, and an error leaves no mapping.
RECURSIVE encode_tracks(_, _, _, _, _)
encode_tracks(fractal_family, audio_tracks, strengths, i, encoded_tracks) ==
    IF i > Len(audio_tracks) THEN [outcome |-> "ok", encoded_tracks |-> encoded_tracks]
    ELSE IF i > Len(strengths) \/ i > Len(frequency_bands)
    THEN [outcome |-> "IndexError", encoded_tracks |-> NoChunks]
    ELSE LET res == encode_single_track(audio_tracks[i].audio, fractal_family[i],
                                        strengths[i], frequency_bands[i])
             name == audio_tracks[i].track_name
         IN  IF res.outcome # "ok"
             THEN [outcome |-> res.outcome, encoded_tracks |-> NoChunks]
             ELSE encode_tracks(fractal_family, audio_tracks, strengths, i + 1,
                                [n \in DOMAIN encoded_tracks \cup {name} |->
                                     IF n = name THEN res.encoded ELSE encoded_tracks[n]])

encode_multi_track(secret, global_draws, audio_tracks, fractal_seed, strengths) ==
    \* The family is computed once, then the loop runs over the tracks.
    LET family == generate_fractal_family(secret, global_draws, fractal_seed,
                                          Len(audio_tracks))
    IN  encode_tracks(family, audio_tracks, strengths, 1, NoChunks)

TrackNameOrders == {<<"drums", "bass", "vocals", "fx">>, <<"vocals", "fx", "drums", "bass">>}
TrackAudios == {<<0, 3>>, <<3, 0, 3, 3, 0>>}
StrengthLists == {default_strengths, <<<<7, 100>>, <<1, 1>>, <<3, 10>>, <<3, 100>>>>, <<<<7, 100>>>>}

\* The dicts of up to four tracks: names[k] -> audios[k], in this order.
TrackDicts ==
    {[k \in 1..Len(audios) |-> [track_name |-> names[k], audio |-> audios[k]]] :
        names \in TrackNameOrders,
        audios \in UNION {[1..c -> TrackAudios] : c \in 0..(Len(frequency_bands) + 1)}}

EncodeMultiTrack(p, audio_tracks, fractal_seed, strengths) ==
    /\ multi = NoCall
    /\ \E res \in {encode_multi_track(hashsecret[p], np_global[p], audio_tracks,
                                       fractal_seed, strengths)} :
           multi' = [kind |-> "encode_multi_track", proc |-> p,
                     audio_tracks |-> audio_tracks, fractal_seed |-> fractal_seed,
                     strengths |-> strengths, outcome |-> res.outcome,
                     encoded_tracks |-> res.encoded_tracks]
    /\ UNCHANGED <<hashsecret, np_global, gen_prev, gen_last, enc, ver, par, loop>>

NextMulti ==
    /\ multi = NoCall
    /\ \E p \in Procs, tracks \in TrackDicts, seed \in Seeds, strengths \in StrengthLists :
           EncodeMultiTrack(p, tracks, seed, strengths)

SpecMulti == Init /\ [][NextMulti]_vars
(***************************************************************************)
(* Properties of the generator (under SpecGen).                            *)
(***************************************************************************)
\* The last two generate calls asked the same component for the same seed
\* and length.
SameGenerateCall ==
    /\ gen_prev # NoCall
    /\ gen_last # NoCall
    /\ gen_prev.component = gen_last.component
    /\ gen_prev.seed = gen_last.seed
    /\ gen_prev.length = gen_last.length

\* The last two generate calls asked for the same seed and length.
SameGenerateCallBut ==
    /\ gen_prev # NoCall
    /\ gen_last # NoCall
    /\ gen_prev.seed = gen_last.seed
    /\ gen_prev.length = gen_last.length

SameGenerateResult ==
    /\ gen_prev.outcome = gen_last.outcome
    /\ gen_prev.pattern = gen_last.pattern

\* C3: generate_fractal_pattern returns the identical pattern for one seed
\* string and length in two different runs (processes) of the program.
C3_CrossRunReproducible ==
    (/\ SameGenerateCall
     /\ gen_last.component = "orchestrator"
     /\ gen_prev.proc # gen_last.proc) => SameGenerateResult

\* C4: two generate calls with the same seed and length in the same process
\* return element-for-element equal patterns (or fail alike).
C4_DeterministicWithinRun ==
    (SameGenerateCall /\ gen_prev.proc = gen_last.proc) => SameGenerateResult

C4_Witness ==
    /\ SameGenerateCall
    /\ gen_prev.proc = gen_last.proc
    /\ gen_last.component = "orchestrator"
    /\ gen_last.outcome = "ok"
    /\ gen_last.length >= 3
    /\ np_global[gen_last.proc] >= 1
    /\ \E k \in 1..gen_last.length : gen_last.pattern[k] # 0

(***************************************************************************)
(* Properties of the codec (under Spec).                                   *)
(***************************************************************************)
Encoded == enc # NoCall
Verified == enc # NoCall /\ ver # NoCall /\ ver.result.outcome = "ok"

\* The pattern has an element and not all of its elements are 0.
NonDegenerate(pattern) == Len(pattern) > 0 /\ MaxAbs(pattern) > 0

\* Number of full chunks of the call, and the samples they cover.
FullChunks == Len(enc.audio_data) \div enc.chunk_size
FullLen == FullChunks * enc.chunk_size

\* The shift the call gives its full chunk k (0-based).
ChunkShift(k) ==
    shift_samples(enc.fractal_pattern, k % Len(enc.fractal_pattern),
                  max_shift_samples(enc.strength_ms))

\* Some full chunk holds two different samples (a rotation by one sample
\* would change it).
SomeChunkVaries ==
    \E k \in 0..(FullChunks - 1) :
        \E a, b \in 1..enc.chunk_size :
            enc.audio_data[k * enc.chunk_size + a] # enc.audio_data[k * enc.chunk_size + b]

\* C1: at the default strength 0.01 ms, with a pattern of length 100 generated
\* from a seed, the encoding of a buffer whose full chunks vary is not the
\* input: some full chunk gets a non-zero shift and the output differs.
C1_NonTrivialAtDefaultStrength ==
    (/\ Encoded
     /\ enc.seed # NoSeed
     /\ enc.strength_ms = default_strength
     /\ enc.chunk_size >= 2
     /\ NonDegenerate(enc.fractal_pattern)
     /\ SomeChunkVaries)
    => /\ enc.outcome = "ok"
       /\ \E k \in 0..(FullChunks - 1) : ChunkShift(k) # 0
       /\ enc.encoded # enc.audio_data

\* C2: after a buffer was encoded (and changed) with the pattern of one seed,
\* a verification by a caller who assumes a different seed (with a different
\* pattern) does not report the encoding as detected.
C2_RejectsUnrelatedSeed ==
    (/\ Verified
     /\ enc.seed # NoSeed
     /\ enc.encoded # enc.audio_data
     /\ ver.assumed_seed # enc.seed
     /\ generate_fractal_pattern(hashsecret[enc.proc], np_global[enc.proc],
                                 ver.assumed_seed, pattern_length).pattern
            # enc.fractal_pattern)
    => ~ver.result.encoding_detected

\* C5: for a non-degenerate pattern and a positive chunk size encode returns
\* a buffer with exactly as many samples as the input.
C5_LengthInvariance ==
    (Encoded /\ enc.chunk_size > 0 /\ NonDegenerate(enc.fractal_pattern))
    => enc.outcome = "ok" /\ Len(enc.encoded) = Len(enc.audio_data)

C5_Witness ==
    /\ Encoded
    /\ enc.chunk_size = 2
    /\ NonDegenerate(enc.fractal_pattern)
    /\ Len(enc.audio_data) = 3
    /\ ChunkShift(0) # 0
    /\ enc.encoded # enc.audio_data
    /\ Len(enc.encoded) = 3

C7_IdentityAtZeroStrength ==
    (/\ Encoded
     /\ enc.chunk_size > 0
     /\ enc.strength_ms[1] = 0
     /\ NonDegenerate(enc.fractal_pattern))
    => enc.outcome = "ok" /\ enc.encoded = enc.audio_data

C7_Witness ==
    /\ Encoded
    /\ enc.strength_ms[1] = 0
    /\ enc.chunk_size = 2
    /\ NonDegenerate(enc.fractal_pattern)
    /\ SomeChunkVaries
    /\ enc.encoded = enc.audio_data

\* 0.001 ms <= strength <= 0.01 ms
InSweetSpot(strength_ms) ==
    /\ strength_ms[1] * 1000 >= strength_ms[2]
    /\ strength_ms[1] * 100 <= strength_ms[2]

\* C8: for a strength in the sweet spot 0.001 .. 0.01 ms the correlation of a
\* non-constant original with its encoding exceeds 0.999, and verify at the
\* default threshold 0.99 reports audio_preserved.
C8_SweetSpotCorrelation ==
    (/\ Verified
     /\ InSweetSpot(enc.strength_ms)
     /\ enc.chunk_size > 0
     /\ NonDegenerate(enc.fractal_pattern)
     /\ ver.result.correlation.vx > 0)
    => /\ CorrGT(ver.result.correlation, <<999, 1000>>)
       /\ ver.threshold = default_threshold => ver.result.audio_preserved

C8_Witness ==
    /\ Verified
    /\ enc.strength_ms = default_strength
    /\ enc.seed # NoSeed
    /\ enc.chunk_size = 2
    /\ SomeChunkVaries
    /\ ver.threshold = default_threshold
    /\ ver.result.audio_preserved

\* C9: audio_preserved is true exactly when the correlation is strictly
\* greater than the threshold, and meets_standards exactly when
\* audio_preserved and encoding_detected both are.
C9_VerdictComposition ==
    Verified =>
        /\ ver.result.audio_preserved = CorrGT(ver.result.correlation, ver.threshold)
        /\ ver.result.meets_standards
               = (ver.result.audio_preserved /\ ver.result.encoding_detected)

\* A correlation equal to the threshold (identical buffers, threshold 1).
C9_Witness ==
    /\ Verified
    /\ ver.threshold = <<1, 1>>
    /\ ~IsNaN(ver.result.correlation)
    /\ enc.encoded = enc.audio_data
    /\ ~ver.result.audio_preserved
    /\ ~ver.result.meets_standards

\* C10: with an all-zero pattern encode does not fail and returns the audio
\* unchanged, whatever the buffer.
C10_DegeneratePatternIsNoOp ==
    (/\ Encoded
     /\ enc.chunk_size > 0
     /\ Len(enc.fractal_pattern) > 0
     /\ MaxAbs(enc.fractal_pattern) = 0)
    => enc.outcome = "ok" /\ enc.encoded = enc.audio_data

\* The call was given an empty buffer, an empty pattern or a chunk size that
\* is not positive.
MalformedEncodeInput ==
    \/ Len(enc.audio_data) = 0
    \/ Len(enc.fractal_pattern) = 0
    \/ enc.chunk_size <= 0

\* C11: encode called with empty audio, with a pattern of length 0 or with a
\* chunk size that is zero or negative ends in an error and returns no buffer.
C11_FailFastOnMalformedInput ==
    (Encoded /\ MalformedEncodeInput) => enc.outcome # "ok"

\* Full chunk k (0-based) of a buffer of the call.
ChunkOf(buffer, k) == Slice(buffer, k * enc.chunk_size, (k + 1) * enc.chunk_size)

\* The shift of full chunk k is larger in magnitude than the chunk.
OverRange(k) == Abs(ChunkShift(k)) > enc.chunk_size

\* That shift limited to the chunk size, its sign kept.
ClampedShift(k) ==
    IF ChunkShift(k) > enc.chunk_size THEN enc.chunk_size
    ELSE IF ChunkShift(k) < -enc.chunk_size THEN -enc.chunk_size
    ELSE ChunkShift(k)

\* C12: when the strength makes the shift of some full chunk exceed the chunk
\* size, encode either fails or encodes that chunk with the shift clamped to
\* the chunk size; the over-range shift is never applied as it is.
C12_ShiftOverflowClampedOrRejected ==
    (/\ Encoded
     /\ enc.chunk_size > 0
     /\ NonDegenerate(enc.fractal_pattern)
     /\ \E k \in 0..(FullChunks - 1) : OverRange(k))
    => \/ enc.outcome # "ok"
       \/ \A k \in 0..(FullChunks - 1) :
              OverRange(k) =>
                  ChunkOf(enc.encoded, k)
                      = apply_phase_shift(ChunkOf(enc.audio_data, k), ClampedShift(k))

\* verify was called on two buffers of different lengths.
VerifiedUnequalLengths == ver # NoCall /\ Len(ver.original) # Len(ver.encoded)

\* The part of a verified buffer both buffers have.
CommonPrefix(buffer) ==
    Slice(buffer, 0, IF Len(ver.original) < Len(ver.encoded)
                     THEN Len(ver.original) ELSE Len(ver.encoded))

\* C13: verify on buffers of different lengths does not fail: it returns the
\* result computed on both buffers truncated to the shorter length.
C13_VerifyTruncatesToShorter ==
    VerifiedUnequalLengths =>
        /\ ver.result.outcome = "ok"
        /\ ver.result.correlation
               = corrcoef(CommonPrefix(ver.original), CommonPrefix(ver.encoded))

\* C14: verify on buffers of different lengths ends in an invalid-argument
\* error (ValueError) and returns no result: no correlation and no verdict
\* computed on truncated or padded buffers.
C14_VerifyRejectsUnequalLengths ==
    VerifiedUnequalLengths =>
        /\ ver.result.outcome = "ValueError"
        /\ DOMAIN ver.result = {"outcome"}

\* Buffers that agree on a varying common prefix: truncation would have given
\* correlation 1.
C14_Witness ==
    /\ VerifiedUnequalLengths
    /\ Len(ver.original) = 3
    /\ Len(ver.encoded) = 2
    /\ CommonPrefix(ver.original) = ver.encoded
    /\ ver.encoded[1] # ver.encoded[2]
    /\ ver.result.outcome = "ValueError"

StrengthLE(s1, s2) == s1[1] * s2[2] <= s2[1] * s1[2]

\* c1 >= c2 for two correlations with the same original (the same vx > 0)
\* and vy > 0: cov1 / sqrt(vy1) >= cov2 / sqrt(vy2), compared by signed squares.
CorrNotLess(c1, c2) == c1.cov * Abs(c1.cov) * c2.vy >= c2.cov * Abs(c2.cov) * c1.vy

\* The correlation of the call's buffer with its encoding at another strength.
CorrelationAt(strength_ms) ==
    corrcoef(enc.audio_data,
             encode_audio(enc.audio_data, enc.fractal_pattern, strength_ms,
                          enc.chunk_size).encoded)

\* C18: for a fixed buffer and pattern the correlation of the buffer with its
\* encoding does not increase with the strength: for every strength s1 below
\* the strength s2 of the call, correlation at s1 >= correlation at s2.
C18_CorrelationNonIncreasing ==
    (/\ Verified
     /\ enc.chunk_size > 0
     /\ NonDegenerate(enc.fractal_pattern)
     /\ ~IsNaN(ver.result.correlation))
    => \A s1 \in Strengths :
           (StrengthLE(s1, enc.strength_ms) /\ ~IsNaN(CorrelationAt(s1)))
           => CorrNotLess(CorrelationAt(s1), ver.result.correlation)

(***************************************************************************)
(* Chunk independence (under SpecPar).                                     *)
(***************************************************************************)
\* Every full chunk of the call has been encoded by a worker.
AllChunksDone ==
    /\ Encoded
    /\ enc.outcome = "ok"
    /\ enc.chunk_size > 0
    /\ DOMAIN par = 0..(FullChunks - 1)

\* The workers' chunks from chunk k on, in buffer order, then the trailing
\* partial chunk.
RECURSIVE Reassembled(_)
Reassembled(k) ==
    IF k >= FullChunks THEN Slice(enc.audio_data, FullLen, Len(enc.audio_data))
    ELSE par[k] \o Reassembled(k + 1)

\* C17: the full chunks encoded one by one in any order, each from its own
\* input chunk, its index, the pattern and the strength, and put together in
\* buffer order, are exactly the buffer the sequential loop returned.
C17_ChunkIndependence ==
    AllChunksDone => Reassembled(0) = enc.encoded

\* Two 2-sample chunks with different shifts, both changed by the encoding,
\* done by the workers.
C17_Witness ==
    /\ AllChunksDone
    /\ enc.chunk_size = 2
    /\ FullChunks = 2
    /\ ChunkShift(0) # ChunkShift(1)
    /\ ChunkShift(0) # 0
    /\ ChunkOf(enc.encoded, 0) # ChunkOf(enc.audio_data, 0)
    /\ ChunkOf(enc.audio_data, 1)[1] # ChunkOf(enc.audio_data, 1)[2]
    /\ Reassembled(0) = enc.encoded

(***************************************************************************)
(* The shift of each chunk (under Spec and SpecPar).                       *)
(***************************************************************************)
\* A successful encode call with a pattern that has a non-zero element.
EncodedChunks ==
    /\ Encoded
    /\ enc.outcome = "ok"
    /\ enc.chunk_size > 0
    /\ NonDegenerate(enc.fractal_pattern)

\* The pattern element of full chunk k.
PatternElement(k) == enc.fractal_pattern[(k % Len(enc.fractal_pattern)) + 1]

\* floor(fractal_norm[pattern_idx] * max_shift_samples) for full chunk k
\* (\div rounds toward minus infinity).
FloorShift(k) ==
    (PatternElement(k) * max_shift_samples(enc.strength_ms)) \div MaxAbs(enc.fractal_pattern)

\* C21: the shift of every full chunk is the floor of the normalised pattern
\* value times max_shift_samples, also when that product is negative.
C21_ShiftIsFloor ==
    EncodedChunks =>
        \A k \in 0..(FullChunks - 1) : enc.shifts[k + 1] = FloorShift(k)

\* C22: the full chunk at offset i = k * chunk_size uses pattern element
\* k mod len(pattern): the loop computed one shift per full chunk, the shift
\* of chunk k is the one of that element, and chunks k and k + len(pattern)
\* got the same shift.
C22_PatternCycling ==
    EncodedChunks =>
        /\ Len(enc.shifts) = FullChunks
        /\ \A k \in 0..(FullChunks - 1) : enc.shifts[k + 1] = ChunkShift(k)
        /\ \A k \in 0..(FullChunks - 1) :
               k + Len(enc.fractal_pattern) < FullChunks
               => enc.shifts[k + 1] = enc.shifts[k + Len(enc.fractal_pattern) + 1]

\* Four chunks over a pattern of two elements with different shifts.
C22_Witness ==
    /\ EncodedChunks
    /\ FullChunks = 4
    /\ Len(enc.fractal_pattern) = 2
    /\ enc.shifts[1] # enc.shifts[2]
    /\ enc.shifts[3] = enc.shifts[1]
    /\ enc.shifts[4] = enc.shifts[2]

\* |strength_ms / 1000 * 44100| < 1
SubSample(strength_ms) == Abs(strength_ms[1]) * sample_rate < strength_ms[2] * 1000

AtPeak(k) == Abs(PatternElement(k)) = MaxAbs(enc.fractal_pattern)

ShiftWithinBound ==
    \A k \in 0..(FullChunks - 1) :
        Abs(enc.shifts[k + 1]) <= Abs(max_shift_samples(enc.strength_ms))

ShiftAtBound(k) == Abs(enc.shifts[k + 1]) = Abs(max_shift_samples(enc.strength_ms))

\* C27 as stated: |shift_samples| <= |max_shift_samples| for every full
\* chunk, with equality exactly at the chunks whose pattern element has the
\* maximum absolute value.
C27_ShiftBoundReachedExactlyAtPeak ==
    EncodedChunks =>
        /\ ShiftWithinBound
        /\ \A k \in 0..(FullChunks - 1) : ShiftAtBound(k) <=> AtPeak(k)

\* C27 amended: |shift_samples| <= |max_shift_samples| for every full chunk;
\* the bound is reached at every chunk whose pattern element has the maximum
\* absolute value, and only there when max_shift_samples is not 0 (when it is
\* 0 every chunk's shift is 0 and reaches it).
C27_ShiftBound ==
    EncodedChunks =>
        /\ ShiftWithinBound
        /\ \A k \in 0..(FullChunks - 1) :
               /\ AtPeak(k) => ShiftAtBound(k)
               /\ (ShiftAtBound(k) /\ max_shift_samples(enc.strength_ms) # 0) => AtPeak(k)

\* A chunk at the peak with the full shift and a chunk below it with a
\* smaller one.
C27_Witness ==
    /\ EncodedChunks
    /\ max_shift_samples(enc.strength_ms) = 3
    /\ FullChunks >= 2
    /\ \E k \in 0..(FullChunks - 1) : AtPeak(k) /\ Abs(enc.shifts[k + 1]) = 3
    /\ \E k \in 0..(FullChunks - 1) : ~AtPeak(k) /\ Abs(enc.shifts[k + 1]) = 1

Generated == gen_last # NoCall

\* C15: generate accepts only lengths >= 2: with length 1, 0 or a negative
\* length it ends in an error and returns no pattern.
C15_RejectsLengthBelowTwo ==
    (Generated /\ gen_last.length < 2)
    => gen_last.outcome # "ok" /\ gen_last.pattern = <<>>

\* C19: for every length >= 2, whenever generate computes an element from its
\* neighbours i - step and i + step, both have been assigned before; none
\* still holds the placeholder 0.
C19_NeighboursAlreadyDetermined ==
    (Generated /\ gen_last.outcome = "ok" /\ gen_last.length >= 2)
    => gen_last.placeholder_reads = {}

\* The reference procedure of C20, written from its statement: the list of
\* assignments <<i, step, scale>> in the order they are made, and draw k taken
\* as the k-th value of the seeded generator's stream.
RECURSIVE RefSchedule(_, _, _)
RefSchedule(step, scale, length) ==
    IF step = 0 THEN <<>>
    ELSE [j \in 1..((length - 1) \div (2 * step)) |-> <<step * (2 * j - 1), step, scale>>]
         \o RefSchedule(step \div 2, scale \div 2, length)

RefDraw(rng0, k, scale) == uniform(rng_skip(rng0, k), -scale, scale)

RECURSIVE RefFold(_, _, _, _)
RefFold(pattern, schedule, k, rng0) ==
    IF k > Len(schedule) THEN pattern
    ELSE LET i == schedule[k][1]
             step == schedule[k][2]
             v == (pattern[i - step + 1] + pattern[i + step + 1]) \div 2
                  + RefDraw(rng0, k + 1, schedule[k][3])
         IN  RefFold([pattern EXCEPT ![i + 1] = v], schedule, k + 1, rng0)

Reference(rng0, length) ==
    RefFold([k \in 1..length |-> IF k = 1 THEN RefDraw(rng0, 1, PatUnit) ELSE 0],
            RefSchedule(length \div 2, PatUnit, length), 1, rng0)

\* The generator the last call seeded.
CallRng ==
    IF gen_last.component = "orchestrator"
    THEN seeded_rng(PyHash(hashsecret[gen_last.proc], gen_last.seed) % SeedSpace,
                    np_global[gen_last.proc])
    ELSE seeded_rng(int16(Slice(gen_last.seed, 0, 8)) % SeedSpace,
                    np_global[gen_last.proc])

\* C20: the pattern generate returns is the one of the reference procedure:
\* zeros, element 0 the first draw in [-1, 1], then for step = length div 2,
\* halved until 0, and i = step, 3*step, ... with i + step < length, element
\* i = mean of elements i - step and i + step plus the next draw in
\* [-scale, scale], scale halved with every step; one draw per assignment.
C20_MatchesReferenceProcedure ==
    (Generated /\ gen_last.outcome = "ok")
    => gen_last.pattern = Reference(CallRng, gen_last.length)

\* A call of length 5: three assignments in two passes (scales 1 and 1/2).
C20_Witness ==
    /\ Generated
    /\ gen_last.outcome = "ok"
    /\ gen_last.length = 5
    /\ Len(RefSchedule(2, PatUnit, 5)) = 3
    /\ gen_last.pattern[2] # 0
    /\ gen_last.pattern[3] # 0
    /\ gen_last.pattern[4] # gen_last.pattern[2]
    /\ gen_last.pattern = Reference(CallRng, 5)

IsPowerOfTwo(n) == \E e \in 0..n : 2^e = n

\* The (0-based) positions of the returned pattern no pass has written.
Unassigned == (0..(gen_last.length - 1)) \ gen_last.assigned

\* The last position written.
LastFilled == CHOOSE m \in gen_last.assigned : \A j \in gen_last.assigned : j <= m

\* C23: every position no pass assigns holds 0; when the length is not a
\* power of two these are exactly the positions beyond the last filled one;
\* the last position is never assigned for a length >= 2; position 0 keeps
\* its initial draw.
C23_UnfilledPositionsStayZero ==
    (Generated /\ gen_last.outcome = "ok")
    => /\ \A j \in Unassigned : gen_last.pattern[j + 1] = 0
       /\ ~IsPowerOfTwo(gen_last.length)
              => Unassigned = {j \in 0..(gen_last.length - 1) : j > LastFilled}
       /\ gen_last.length >= 2 => (gen_last.length - 1) \notin gen_last.assigned
       /\ gen_last.pattern[1] = RefDraw(CallRng, 1, PatUnit)

\* Every character of the seed string is a hex digit.
IsHex(seed) == \A k \in DOMAIN seed : seed[k] <= 15

\* C24: for one seed string and length, generate_audio_fractal_pattern of the
\* identity engine and generate_fractal_pattern of the orchestrator, called
\* in one process, return the same pattern.
C24_SamePatternAcrossComponents ==
    (/\ SameGenerateCallBut
     /\ gen_prev.component # gen_last.component
     /\ gen_prev.proc = gen_last.proc
     /\ IsHex(gen_last.seed)
     /\ gen_last.length >= 2)
    => SameGenerateResult

\* Number of passes of the while loop that starts with this step.
RECURSIVE Passes(_)
Passes(step) == IF step = 0 THEN 0 ELSE 1 + Passes(step \div 2)

\* 2^-(P-1) in pattern units: the scale of the last of P >= 1 passes.
FinalScale(P) == PatUnit \div 2^(P - 1)

\* C29: for every length >= 3 and every odd index i with i + 1 < length the
\* returned pattern has |pattern[i] - (pattern[i-1] + pattern[i+1]) / 2|
\* <= 2^-(P-1), P the number of passes (both sides doubled here).
C29_FinalPassPostcondition ==
    (Generated /\ gen_last.outcome = "ok" /\ gen_last.length >= 3)
    => \A i \in 1..(gen_last.length - 2) :
           i % 2 = 1
           => Abs(2 * gen_last.pattern[i + 1]
                  - (gen_last.pattern[i] + gen_last.pattern[i + 2]))
                  <= 2 * FinalScale(Passes(gen_last.length \div 2))

\* Length 7: index 3 is written by the pass with step 3 and written again by
\* the last pass.
C29_Witness ==
    /\ Generated
    /\ gen_last.outcome = "ok"
    /\ gen_last.length = 7
    /\ Passes(gen_last.length \div 2) = 2
    /\ \E a, b \in 1..Len(RefSchedule(3, PatUnit, 7)) :
           /\ RefSchedule(3, PatUnit, 7)[a] = <<3, 3, PatUnit>>
           /\ RefSchedule(3, PatUnit, 7)[b] = <<3, 1, PatUnit \div 2>>
    /\ gen_last.pattern[4] # 0
    /\ 2 * gen_last.pattern[4] # gen_last.pattern[3] + gen_last.pattern[5]

(***************************************************************************)
(* Termination of the generator (under SpecLoop).                          *)
(***************************************************************************)
\* floor(log2(n)) for n >= 1
FloorLog2(n) == CHOOSE e \in 0..n : 2^e <= n /\ n < 2^(e + 1)

ExpectedPasses(length) == IF length < 2 THEN 0 ELSE FloorLog2(length \div 2) + 1

\* C25: generate terminates for every length >= 1: a call in its while loop
\* reaches its return; each pass makes step strictly smaller; and the loop
\* is left after exactly floor(log2(length div 2)) + 1 passes (0 passes for
\* length 1).
C25_TerminatesAfterLogPasses ==
    /\ (loop.pc = "while") ~> (loop.pc = "done")
    /\ [][(loop.pc = "while" /\ loop'.pc = "while") => loop'.step < loop.step]_vars
    /\ [](loop.pc = "done" => loop.passes = ExpectedPasses(loop.length))

\* A call of length 7 that has returned after its two passes with the pattern
\* generate returns.
C25_Witness ==
    /\ loop.pc = "done"
    /\ loop.length = 7
    /\ loop.passes = 2
    /\ loop.step = 0
    /\ loop.st.pattern = midpoint_displacement(loop.rng0, 7).pattern
    /\ \E k \in 2..7 : loop.st.pattern[k] # 0

(***************************************************************************)
(* encode_multi_track (under SpecMulti).                                   *)
(***************************************************************************)
\* The pattern the call's process generates for the track at position i
\* (0-based).
TrackPattern(i) ==
    generate_fractal_pattern(hashsecret[multi.proc], np_global[multi.proc],
                             TrackSeed(multi.fractal_seed, i), pattern_length).pattern

TrackNamesOf(audio_tracks) == {audio_tracks[k].track_name : k \in DOMAIN audio_tracks}

====
